---- MODULE Spec2Model ----
(***************************************************************************)
(* Model of object_controller.cpp: SIGVerseObjectController.               *)
(*                                                                         *)
(* Units.  Time is counted in hundredths of a second, speeds in tenths of  *)
(* a radian per second, table coordinates in tenths, and a phase value     *)
(* (pos_val) in thousandths of a radian, so that every quantity of the     *)
(* program is an integer here.                                             *)
(*                                                                         *)
(* roscpp semantics used by the model (the library the program calls):     *)
(*  - ros::shutdown() sets ros::ok() to false, disables and clears the     *)
(*    global callback queue and shuts the topic manager down; a later      *)
(*    publish() returns without sending, a later spinOnce() calls nothing. *)
(*  - a ros::Timer handle owns its schedule: when the last handle to a     *)
(*    schedule is overwritten or destroyed, the schedule is stopped.       *)
(*  - publish() is best effort: a message the transport does not take is   *)
(*    dropped and the call returns normally.                               *)
(***************************************************************************)
EXTENDS Integers, Sequences, FiniteSets, TLC

VARIABLES
    pc,             \* position of the process in main()/run()
    tty,            \* terminal mode of fd 0: "cooked" or "raw"
    ok,             \* ros::ok()
    exit_status,    \* -1 while the process runs, else its exit status
    typed,          \* number of keys the operator has pressed so far
    pending,        \* bytes typed by the operator and not yet read
    eof,            \* the input stream is at end-of-file
    ret,            \* run(): int ret
    buf,            \* run(): the bytes buf[0..ret-1] of the last read (1-based here)
    c,              \* run(): char c
    now,            \* ros::Time::now()
    timers,         \* the schedules armed in the node: handle -> schedule, with
                    \* the phase values it has published so far (sent)
    pub_timer_map_, \* name -> timer handle
    nextHandle,     \* identity of the next schedule createTimer() makes
    latest,         \* name -> the arguments and time of its latest createTimer() call
    inbox,          \* inbound messages queued for receiveMessageCallback
    advertised,     \* the topics the node has subscribed to or advertised
    sel,            \* what canReceive(kfd) returned in this iteration
    log,            \* the last ROS_INFO line of the current iteration
    out             \* publish() calls made since the current iteration began

ioVars == <<typed, pending, eof>>
locVars == <<ret, buf, c>>
regVars == <<timers, pub_timer_map_, nextHandle, latest>>

vars == <<pc, tty, ok, exit_status, ioVars, locVars, now, regVars, inbox,
          advertised, sel, log, out>>

-----------------------------------------------------------------------------
(* Bounds of the model *)

MaxKeys == 2        \* keys the operator presses during a run
MaxTime == 8        \* no new loop iteration starts at or after this time
MaxInbox == 1       \* inbound messages that can be queued at once
MaxCalls == 2       \* createTimer() calls of the registry harness
MaxPeriods == 3     \* timer periods the registry harness lets pass

(* Program constants *)

KEYCODE_1 == 49
KEYCODE_2 == 50
KEYCODE_3 == 51
KEYCODE_G == 103
KEYCODE_H == 104
KEYCODE_I == 105
KEYCODE_R == 114
BufSize == 1024     \* sizeof(buf)
LoopPeriod == 2     \* ros::Rate loop_rate(50): 0.02 s
TimerPeriod == 5    \* ros::Duration(0.05)
EXIT_SUCCESS == 0
EXIT_FAILURE == 1

\* the keys the operator presses: the seven commands, 'G' (71) and 'x' (120)
Keys == {KEYCODE_1, KEYCODE_2, KEYCODE_3, KEYCODE_G, KEYCODE_H, KEYCODE_I,
         KEYCODE_R, 71, 120}

\* what an out-of-bounds read of a char can yield
AnyByte == Keys \cup {0}

\* clock values at process start
StartTimes == {0, 1}

Names == {"bear_doll", "dog_doll", "rabbit_doll", "table"}

Min(a, b) == IF a < b THEN a ELSE b

-----------------------------------------------------------------------------
(* Outbound channels *)

\* geometry_msgs::TransformStamped as sendPositon / sendPositonCallback fill it.
\* up: the node was up when publish() was called; acc: the transport took it.
Pose(name, x, y, acc) ==
    [chan |-> "/goods/transform", frame_id |-> "map", child_frame_id |-> name,
     x |-> x, y |-> y, z |-> 0, rotation |-> "unset", up |-> ok, acc |-> acc]

\* std_msgs::String on pub_msg_
Message(data, acc) ==
    [chan |-> "/goods/message/from_ros", data |-> data, up |-> ok, acc |-> acc]

\* a publish() call is seen by the subscribers of the channel
Observed(p) == p.up /\ p.acc

IsPose(p) == p.chan = "/goods/transform"
IsMessage(p) == p.chan = "/goods/message/from_ros"

sendGraspedMessage(name, acc) ==
    /\ log' = "Sent Message: grasped," \o name
    /\ out' = Append(out, Message("grasped," \o name, acc))

sendReleasedMessage(acc) ==
    /\ log' = "Sent Message: released"
    /\ out' = Append(out, Message("released", acc))

sendPositon(name, posx, posy, acc) ==
    /\ log' = log
    /\ out' = Append(out, Pose(name, <<"lit", posx>>, <<"lit", posy>>, acc))

\* the phase without the start time of the schedule
PosVal_NoOrigin(start_time, speed, t) == speed * t

\* double pos_val = start_time + speed * ros::Time::now().toSec()
PosVal(start_time, speed, t) == start_time * 10 + speed * t

\* the callback with the rotation of line 262 assigned
sendPositonCallback_SetsRotation(name, start_time, speed, acc) ==
    LET pos_val == PosVal(start_time, speed, now)
        pose    == Pose(name, <<"cos", pos_val>>, <<"sin", pos_val>>, acc)
    IN  /\ log' = log
        /\ out' = Append(out, [pose EXCEPT !.rotation = "set"])

sendPositonCallback(name, start_time, speed, acc) ==
    LET pos_val == PosVal(start_time, speed, now)
    IN  /\ log' = log
        /\ out' = Append(out, Pose(name, <<"cos", pos_val>>, <<"sin", pos_val>>, acc))

-----------------------------------------------------------------------------
(* Timer registry *)

\* createTimer() keeping the schedule the name had before
createTimer_NoReplace(name, speed) ==
    LET h   == nextHandle
        new == [name |-> name, start_time |-> now, speed |-> speed,
                next |-> now + TimerPeriod, sent |-> <<>>]
    IN  /\ timers' = [k \in DOMAIN timers \cup {h} |->
                         IF k = h THEN new ELSE timers[k]]
        /\ pub_timer_map_' = [n \in DOMAIN pub_timer_map_ \cup {name} |->
                                 IF n = name THEN h ELSE pub_timer_map_[n]]
        /\ nextHandle' = nextHandle + 1

createTimer(name, speed) ==
    LET h   == nextHandle
        old == IF name \in DOMAIN pub_timer_map_ THEN {pub_timer_map_[name]} ELSE {}
        new == [name |-> name, start_time |-> now, speed |-> speed,
                next |-> now + TimerPeriod, sent |-> <<>>]
    IN  /\ timers' = [k \in (DOMAIN timers \ old) \cup {h} |->
                         IF k = h THEN new ELSE timers[k]]
        /\ pub_timer_map_' = [n \in DOMAIN pub_timer_map_ \cup {name} |->
                                 IF n = name THEN h ELSE pub_timer_map_[n]]
        /\ nextHandle' = nextHandle + 1

\* a call of createTimer(), and the record of what was asked for
CallCreateTimer(name, speed) ==
    /\ createTimer(name, speed)
    /\ latest' = [n \in DOMAIN latest \cup {name} |->
                     IF n = name THEN [speed |-> speed, time |-> now]
                     ELSE latest[n]]

Due(h) == timers[h].next <= now

\* the due schedule the node calls next: the earliest expected time first,
\* schedules of equal time in the order of their creation
FirstDue(h) ==
    /\ Due(h)
    /\ \A k \in DOMAIN timers :
          Due(k) => \/ timers[h].next < timers[k].next
                    \/ (timers[h].next = timers[k].next /\ h <= k)

\* a firing that binds the time of the firing as the next start_time
Fire_RefreshOrigin(h, acc) ==
    /\ sendPositonCallback(timers[h].name, timers[h].start_time, timers[h].speed, acc)
    /\ timers' = [timers EXCEPT
                     ![h].next = @ + TimerPeriod,
                     ![h].start_time = now,
                     ![h].sent = Append(@, [t |-> now, val |-> out'[Len(out')].x[2]])]

\* one firing of schedule h: the bound callback runs, the schedule is re-armed.
\* sent keeps the time and the phase of every pose the schedule published.
Fire(h, acc) ==
    /\ sendPositonCallback(timers[h].name, timers[h].start_time, timers[h].speed, acc)
    /\ timers' = [timers EXCEPT
                     ![h].next = @ + TimerPeriod,
                     ![h].sent = Append(@, [t |-> now, val |-> out'[Len(out')].x[2]])]

-----------------------------------------------------------------------------
(* The process *)

InitAt(p) ==
    /\ pc = p
    /\ tty = "cooked"
    /\ ok = TRUE
    /\ exit_status = -1
    /\ typed = 0
    /\ pending = <<>>
    /\ eof = FALSE
    /\ ret = 0
    /\ buf = <<>>
    /\ c = 0
    /\ now \in StartTimes
    /\ timers = <<>>
    /\ pub_timer_map_ = <<>>
    /\ nextHandle = 1
    /\ latest = <<>>
    /\ inbox = 0
    /\ advertised = {}
    /\ sel = 0
    /\ log = ""
    /\ out = <<>>

Init == InitAt("start")

\* lines 76-85: save the terminal mode, switch to raw mode
SetRawMode ==
    /\ pc = "start"
    /\ tty' = "raw"
    /\ pc' = "setup"
    /\ UNCHANGED <<ok, exit_status, ioVars, locVars, now, regVars, inbox, out, advertised, sel, log>>

\* the set-up going to the loop without the registrations of lines 100-102
Setup_SkipsRegistration ==
    /\ pc = "setup"
    /\ advertised' = {"/goods/message/from_sigverse", "/goods/message/from_ros",
                      "/goods/transform"}
    /\ pc' = "while"
    /\ UNCHANGED <<tty, ok, exit_status, ioVars, locVars, now, regVars, inbox, out, sel, log>>

\* lines 90-98: SIGINT handler, loop rate, subscribe, advertise, showHelp
Setup ==
    /\ pc = "setup"
    /\ advertised' = {"/goods/message/from_sigverse", "/goods/message/from_ros",
                      "/goods/transform"}
    /\ pc' = "reg_bear"
    /\ UNCHANGED <<tty, ok, exit_status, ioVars, locVars, now, regVars, inbox, out, sel, log>>

\* lines 100-102
Register(at, name, speed, then) ==
    /\ pc = at
    /\ CallCreateTimer(name, speed)
    /\ pc' = then
    /\ UNCHANGED <<tty, ok, exit_status, ioVars, locVars, now, inbox, out, advertised, sel, log>>

RegisterBear == Register("reg_bear", "bear_doll", 5, "reg_dog")
RegisterDog == Register("reg_dog", "dog_doll", 6, "reg_rabbit")
\* the third registration made for the table
RegisterRabbit_Table == Register("reg_rabbit", "table", 7, "while")

RegisterRabbit == Register("reg_rabbit", "rabbit_doll", 7, "while")

\* line 104: while (ros::ok())
LoopTest ==
    /\ pc = "while"
    /\ IF ok
         THEN /\ now < MaxTime
              /\ pc' = "poll"
              /\ out' = <<>>
              /\ log' = ""
         ELSE /\ pc' = "restore"
              /\ out' = out
              /\ log' = log
    /\ UNCHANGED <<tty, ok, exit_status, ioVars, locVars, now, regVars, inbox, advertised, sel>>

\* lines 54-66: select() with a zero timeout: the number of ready descriptors,
\* or -1 when the call fails
canReceive == {IF pending # <<>> \/ eof THEN 1 ELSE 0, -1}

\* line 106: if (canReceive(kfd)).  The result is not read again after the
\* read: the model forgets it there.
Poll ==
    /\ pc = "poll"
    /\ \E r \in canReceive :
          /\ sel' = r
          /\ pc' = IF r # 0 THEN "read" ELSE "spin"
    /\ UNCHANGED <<tty, ok, exit_status, ioVars, locVars, now, regVars, inbox, out, advertised, log>>

\* read(kfd, &buf, sizeof(buf)) blocks while there is nothing to return
ReadBlocks == pending = <<>> /\ ~eof

\* the read fails and the exit() is missing
ReadFail_NoExit ==
    /\ pc = "read"
    /\ ret' = -1
    /\ c' \in AnyByte
    /\ pc' = "switch"
    /\ UNCHANGED <<tty, ok, exit_status, ioVars, buf, now, regVars, inbox, out, advertised, sel, log>>

\* lines 109-113: the read fails
ReadFail ==
    /\ pc = "read"
    /\ ret' = -1
    /\ pc' = "exited"
    /\ exit_status' = EXIT_FAILURE
    /\ UNCHANGED <<tty, ok, ioVars, buf, c, now, regVars, inbox, out, advertised, sel, log>>

\* the read asking for one byte
ReadInput_OneByte ==
    /\ pc = "read"
    /\ ~ReadBlocks
    /\ LET n == Min(Len(pending), 1)
       IN  /\ ret' = n
           /\ buf' = SubSeq(pending, 1, n)
           /\ pending' = SubSeq(pending, n + 1, Len(pending))
           /\ IF n >= 1
                THEN c' = pending[n]
                ELSE c' \in AnyByte
    /\ sel' = 0
    /\ pc' = "switch"
    /\ UNCHANGED <<tty, ok, exit_status, typed, eof, now, regVars, inbox, out, advertised, log>>

\* lines 109-115: the read returns ret >= 0 bytes; c = buf[ret-1]
ReadInput ==
    /\ pc = "read"
    /\ ~ReadBlocks
    /\ LET n == Min(Len(pending), BufSize)
       IN  /\ ret' = n
           /\ buf' = SubSeq(pending, 1, n)
           /\ pending' = SubSeq(pending, n + 1, Len(pending))
           /\ IF n >= 1
                THEN c' = pending[n]
                ELSE c' \in AnyByte       \* buf[-1]: outside the array
    /\ sel' = 0
    /\ pc' = "switch"
    /\ UNCHANGED <<tty, ok, exit_status, typed, eof, now, regVars, inbox, out, advertised, log>>

\* the switch comparing without regard to case
Command_IgnoreCase(b, acc) ==
    CASE b = KEYCODE_1 -> sendPositon("table", 0, 0, acc)
      [] b = KEYCODE_2 -> sendPositon("table", 5, 0, acc)
      [] b = KEYCODE_3 -> sendPositon("table", 0, 5, acc)
      [] b \in {KEYCODE_G, KEYCODE_G - 32} -> sendGraspedMessage("bear_doll", acc)
      [] b \in {KEYCODE_H, KEYCODE_H - 32} -> sendGraspedMessage("dog_doll", acc)
      [] b \in {KEYCODE_I, KEYCODE_I - 32} -> sendGraspedMessage("rabbit_doll", acc)
      [] b \in {KEYCODE_R, KEYCODE_R - 32} -> sendReleasedMessage(acc)
      [] OTHER -> out' = out /\ log' = log

\* the switch with the break of case KEYCODE_2 missing
Command_MissingBreak(b, acc) ==
    CASE b = KEYCODE_1 -> sendPositon("table", 0, 0, acc)
      [] b = KEYCODE_2 ->
            /\ log' = log
            /\ out' = out \o <<Pose("table", <<"lit", 5>>, <<"lit", 0>>, acc),
                               Pose("table", <<"lit", 0>>, <<"lit", 5>>, acc)>>
      [] b = KEYCODE_3 -> sendPositon("table", 0, 5, acc)
      [] b = KEYCODE_G -> sendGraspedMessage("bear_doll", acc)
      [] b = KEYCODE_H -> sendGraspedMessage("dog_doll", acc)
      [] b = KEYCODE_I -> sendGraspedMessage("rabbit_doll", acc)
      [] b = KEYCODE_R -> sendReleasedMessage(acc)
      [] OTHER -> out' = out /\ log' = log

\* lines 117-154: switch(c)
Command(b, acc) ==
    CASE b = KEYCODE_1 -> sendPositon("table", 0, 0, acc)
      [] b = KEYCODE_2 -> sendPositon("table", 5, 0, acc)
      [] b = KEYCODE_3 -> sendPositon("table", 0, 5, acc)
      [] b = KEYCODE_G -> sendGraspedMessage("bear_doll", acc)
      [] b = KEYCODE_H -> sendGraspedMessage("dog_doll", acc)
      [] b = KEYCODE_I -> sendGraspedMessage("rabbit_doll", acc)
      [] b = KEYCODE_R -> sendReleasedMessage(acc)
      [] OTHER -> out' = out /\ log' = log

\* the dispatch looking at ros::ok() itself and leaving the loop at once
Dispatch_ChecksFlag ==
    /\ pc = "switch"
    /\ \E acc \in BOOLEAN : Command(c, acc)
    /\ pc' = IF ok THEN "spin" ELSE "restore"
    /\ ret' = 0 /\ buf' = <<>> /\ c' = 0
    /\ UNCHANGED <<tty, ok, exit_status, ioVars, now, regVars, inbox, advertised, sel>>

\* the dispatch treating a publish the transport did not take as fatal
Dispatch_FatalPublish ==
    /\ pc = "switch"
    /\ \E acc \in BOOLEAN :
          /\ Command(c, acc)
          /\ IF acc \/ out' = out
               THEN pc' = "spin" /\ exit_status' = exit_status
               ELSE pc' = "exited" /\ exit_status' = EXIT_FAILURE
    /\ ret' = 0 /\ buf' = <<>> /\ c' = 0
    /\ UNCHANGED <<tty, ok, ioVars, now, regVars, inbox, advertised, sel>>

\* ret, buf and c are not read again before the next read assigns them: the
\* model forgets their values here.
Dispatch ==
    /\ pc = "switch"
    /\ \E acc \in BOOLEAN : Command(c, acc)
    /\ pc' = "spin"
    /\ ret' = 0 /\ buf' = <<>> /\ c' = 0
    /\ UNCHANGED <<tty, ok, exit_status, ioVars, now, regVars, inbox, advertised, sel>>

\* the timer callback called from a thread of its own
FireTimer_Async ==
    /\ pc \in {"poll", "read", "switch", "spin", "sleep"}
    /\ ok
    /\ \E h \in DOMAIN timers : FirstDue(h) /\ \E acc \in BOOLEAN : Fire(h, acc)
    /\ UNCHANGED <<pc, tty, ok, exit_status, ioVars, locVars, now, pub_timer_map_, nextHandle, latest, inbox, advertised, sel>>

\* line 157, ros::spinOnce(): one due timer callback
FireTimer ==
    /\ pc = "spin"
    /\ ok
    /\ \E h \in DOMAIN timers : FirstDue(h) /\ \E acc \in BOOLEAN : Fire(h, acc)
    /\ UNCHANGED <<pc, tty, ok, exit_status, ioVars, locVars, now, pub_timer_map_, nextHandle, latest, inbox, advertised, sel>>

\* the callback answering the message on the outbound Message channel
receiveMessageCallback_Echo ==
    /\ pc = "spin"
    /\ ok
    /\ inbox > 0
    /\ inbox' = inbox - 1
    /\ \E acc \in BOOLEAN : sendReleasedMessage(acc)
    /\ UNCHANGED <<pc, tty, ok, exit_status, ioVars, locVars, now, regVars, advertised, sel>>

\* lines 186-189: the message is logged
receiveMessageCallback ==
    /\ pc = "spin"
    /\ ok
    /\ inbox > 0
    /\ inbox' = inbox - 1
    /\ log' = "Subscribe Message"
    /\ UNCHANGED <<pc, tty, ok, exit_status, ioVars, locVars, now, regVars, out, advertised, sel>>

\* line 157: spinOnce() returns when no callback is left to call
SpinReturn ==
    /\ pc = "spin"
    /\ ok => (inbox = 0 /\ \A h \in DOMAIN timers : ~Due(h))
    /\ pc' = "sleep"
    /\ UNCHANGED <<tty, ok, exit_status, ioVars, locVars, now, regVars, inbox, out, advertised, sel, log>>

\* line 159: loop_rate.sleep()
Sleep ==
    /\ pc = "sleep"
    /\ now' = now + LoopPeriod
    /\ pc' = "while"
    /\ UNCHANGED <<tty, ok, exit_status, ioVars, locVars, regVars, inbox, out, advertised, sel, log>>

\* line 164: tcsetattr(kfd, TCSANOW, &cooked)
RestoreMode ==
    /\ pc = "restore"
    /\ tty' = "cooked"
    /\ pc' = "return"
    /\ UNCHANGED <<ok, exit_status, ioVars, locVars, now, regVars, inbox, out, advertised, sel, log>>

\* line 167 and main(): return EXIT_SUCCESS
Return ==
    /\ pc = "return"
    /\ exit_status' = EXIT_SUCCESS
    /\ pc' = "exited"
    /\ UNCHANGED <<tty, ok, ioVars, locVars, now, regVars, inbox, out, advertised, sel, log>>

-----------------------------------------------------------------------------
(* The environment *)

Running == pc # "exited"
HandlerInstalled == pc \notin {"start", "setup", "exited"}

\* the operator presses a key
Type ==
    /\ Running
    /\ ~eof
    /\ typed < MaxKeys
    /\ typed' = typed + 1
    /\ \E b \in Keys : pending' = Append(pending, b)
    /\ UNCHANGED <<pc, tty, ok, exit_status, eof, locVars, now, regVars, inbox, out, advertised, sel, log>>

\* the input stream ends
CloseInput ==
    /\ Running
    /\ ~eof
    /\ eof' = TRUE
    /\ UNCHANGED <<pc, tty, ok, exit_status, typed, pending, locVars, now, regVars, inbox, out, advertised, sel, log>>

\* lines 48-51: SIGINT is delivered; the handler calls ros::shutdown()
rosSigintHandler ==
    /\ HandlerInstalled
    /\ ok
    /\ ok' = FALSE
    /\ inbox' = 0
    /\ UNCHANGED <<pc, tty, exit_status, ioVars, locVars, now, regVars, out, advertised, sel, log>>

\* a message arrives on /goods/message/from_sigverse
Inbound ==
    /\ HandlerInstalled
    /\ ok
    /\ inbox < MaxInbox
    /\ inbox' = inbox + 1
    /\ UNCHANGED <<pc, tty, ok, exit_status, ioVars, locVars, now, regVars, out, advertised, sel, log>>

Next ==
    \/ SetRawMode
    \/ Setup
    \/ RegisterBear
    \/ RegisterDog
    \/ RegisterRabbit
    \/ LoopTest
    \/ Poll
    \/ ReadFail
    \/ ReadInput
    \/ Dispatch
    \/ FireTimer
    \/ receiveMessageCallback
    \/ SpinReturn
    \/ Sleep
    \/ RestoreMode
    \/ Return
    \/ Type
    \/ CloseInput
    \/ rosSigintHandler
    \/ Inbound

Spec == Init /\ [][Next]_vars

-----------------------------------------------------------------------------
(* The timer registry on its own: createTimer() called with any names and  *)
(* speeds, in any order, while the schedules fire period by period.        *)

Speeds == {5, 6, 7}

InitTimer == InitAt("harness")

HarnessCreateTimer ==
    /\ pc = "harness"
    /\ nextHandle <= MaxCalls
    /\ \E name \in Names, speed \in Speeds : CallCreateTimer(name, speed)
    /\ UNCHANGED <<pc, tty, ok, exit_status, ioVars, locVars, now, inbox, out, advertised, sel, log>>

HarnessFire ==
    /\ pc = "harness"
    /\ \E h \in DOMAIN timers : FirstDue(h) /\ \E acc \in BOOLEAN : Fire(h, acc)
    /\ UNCHANGED <<pc, tty, ok, exit_status, ioVars, locVars, now, pub_timer_map_, nextHandle, latest, inbox, advertised, sel>>

\* one timer period passes once every due schedule has fired
HarnessWait ==
    /\ pc = "harness"
    /\ \A h \in DOMAIN timers : ~Due(h)
    /\ now < MaxPeriods * TimerPeriod
    /\ now' = now + TimerPeriod
    /\ out' = <<>>
    /\ UNCHANGED <<pc, tty, ok, exit_status, ioVars, locVars, regVars, inbox, advertised, sel, log>>

NextTimer ==
    \/ HarnessCreateTimer
    \/ HarnessFire
    \/ HarnessWait

SpecTimer == InitTimer /\ [][NextTimer]_vars

-----------------------------------------------------------------------------
(* Properties *)

\* what a publish() call carries, leaving out how the channel treated it
IsTablePose(p, x, y) ==
    /\ IsPose(p)
    /\ p.frame_id = "map"
    /\ p.child_frame_id = "table"
    /\ p.x = <<"lit", x>>
    /\ p.y = <<"lit", y>>
    /\ p.z = 0
    /\ p.rotation = "unset"

IsText(p, data) == IsMessage(p) /\ p.data = data

\* the step that executes the switch
DispatchStep == pc = "switch" /\ pc' # pc

\* the publish() calls a step adds
Added == SubSeq(out', Len(out) + 1, Len(out'))
AddsOnly == Len(out') >= Len(out) /\ SubSeq(out', 1, Len(out)) = out

\* C1: dispatching a byte makes exactly the publish() calls of the fixed,
\* case-sensitive table: '1', '2', '3' one pose of "table" at (0,0,0),
\* (0.5,0,0), (0,0.5,0); 'g', 'h', 'i' one message "grasped,<doll>"; 'r' one
\* message "released"; any other byte none.
C1_DispatchTable ==
    [][DispatchStep =>
          /\ AddsOnly
          /\ CASE c = 49  -> Len(Added) = 1 /\ IsTablePose(Added[1], 0, 0)
               [] c = 50  -> Len(Added) = 1 /\ IsTablePose(Added[1], 5, 0)
               [] c = 51  -> Len(Added) = 1 /\ IsTablePose(Added[1], 0, 5)
               [] c = 103 -> Len(Added) = 1 /\ IsText(Added[1], "grasped,bear_doll")
               [] c = 104 -> Len(Added) = 1 /\ IsText(Added[1], "grasped,dog_doll")
               [] c = 105 -> Len(Added) = 1 /\ IsText(Added[1], "grasped,rabbit_doll")
               [] c = 114 -> Len(Added) = 1 /\ IsText(Added[1], "released")
               [] OTHER   -> Len(Added) = 0]_vars

C1_Witness ==
    /\ pc = "spin"
    /\ Len(out) = 1
    /\ IsText(out[1], "grasped,bear_doll")

\* C2: dispatching '2' makes exactly one pose publish, of "table" at
\* (0.5, 0.0, 0), and leaves the timer registry as it was: the same names, and
\* for each the same schedule with the same speed and start time.
C2_MoveTableKeepsRegistry ==
    [][DispatchStep /\ c = KEYCODE_2 =>
          /\ AddsOnly
          /\ Len(Added) = 1
          /\ IsTablePose(Added[1], 5, 0)
          /\ DOMAIN pub_timer_map_' = DOMAIN pub_timer_map_
          /\ \A n \in DOMAIN pub_timer_map_ :
                /\ pub_timer_map_'[n] = pub_timer_map_[n]
                /\ timers'[pub_timer_map_[n]] = timers[pub_timer_map_[n]]]_vars

C2_Witness ==
    /\ pc = "spin"
    /\ Len(out) = 1
    /\ IsTablePose(out[1], 5, 0)
    /\ DOMAIN pub_timer_map_ = {"bear_doll", "dog_doll", "rabbit_doll"}

SchedulesOf(n) == {h \in DOMAIN timers : timers[h].name = n}
PosesOf(n) == {i \in 1..Len(out) : IsPose(out[i]) /\ out[i].child_frame_id = n}

\* C3: after any sequence of createTimer() calls every name has at most one
\* armed schedule, the one its map entry holds, with the speed and start time of
\* the latest call for that name; so a name gets at most one pose per period.
C3_OneSchedulePerName ==
    /\ \A n \in Names : Cardinality(SchedulesOf(n)) <= 1
    /\ \A n \in Names : Cardinality(PosesOf(n)) <= 1
    /\ \A n \in DOMAIN latest :
          /\ n \in DOMAIN pub_timer_map_
          /\ SchedulesOf(n) = {pub_timer_map_[n]}
          /\ timers[pub_timer_map_[n]].speed = latest[n].speed
          /\ timers[pub_timer_map_[n]].start_time = latest[n].time

\* a name registered twice, at different times, whose schedule has fired since
C3_Witness ==
    /\ DOMAIN pub_timer_map_ = {"bear_doll"}
    /\ nextHandle = 3
    /\ latest["bear_doll"].time > 0
    /\ PosesOf("bear_doll") # {}

\* C4: the byte the switch sees is the last byte of what the read of this
\* iteration returned.
C4_LastByteDispatched ==
    pc = "switch" => (ret >= 1 /\ ret = Len(buf) /\ c = buf[ret])

\* C5 as stated: every publish of the iteration in which the loop is left has
\* been made on a live channel.
C5_InFlightPublishesObserved ==
    pc = "restore" => \A i \in 1..Len(out) : out[i].up

\* C5 as amended: once SIGINT has been handled the iteration in progress still
\* runs its remaining steps in order, and the loop is left only at the loop
\* test (or through the fatal read failure); but publish() calls made after the
\* handler ran are not delivered, and no timer callback runs after it.
C5_IterationCompletes ==
    [][/\ (pc' = "restore" /\ pc # "restore") => (pc = "while" /\ ~ok)
       /\ (~ok /\ pc # pc') =>
             CASE pc = "poll"   -> pc' \in {"read", "spin"}
               [] pc = "read"   -> pc' = "switch" \/ (pc' = "exited" /\ ret' < 0)
               [] pc = "switch" -> pc' = "spin"
               [] pc = "spin"   -> pc' = "sleep"
               [] pc = "sleep"  -> pc' = "while"
               [] OTHER         -> TRUE
       /\ ~ok => /\ AddsOnly
                 /\ \A i \in 1..Len(Added) : ~Added[i].up
                 /\ \A h \in DOMAIN timers \cap DOMAIN timers' :
                       timers'[h].next = timers[h].next]_vars

\* SIGINT arrived before the dispatch of the last iteration
C5_Witness ==
    /\ pc = "restore"
    /\ Len(out) = 1
    /\ ~out[1].up

\* C6: the process is never inside read() with nothing to read.
C6_NeverBlocksOnInput ==
    ~(pc = "read" /\ ReadBlocks)

\* C7: whenever the process has terminated the terminal is back in cooked mode.
C7_TerminalRestoredOnExit ==
    pc = "exited" => tty = "cooked"

\* C8: once SIGINT has been handled the process does not wait for input, and
\* when it has terminated the terminal is restored and the status is success.
C8_ShutdownTerminatesCleanly ==
    ~ok => /\ ~(pc = "read" /\ ReadBlocks)
           /\ pc = "exited" => (tty = "cooked" /\ exit_status = EXIT_SUCCESS)

\* C9: a failed read ends the process at once with failure status: nothing is
\* dispatched, no callback runs and nothing is published afterwards.
C9_ReadFailureIsFatal ==
    [][/\ (pc = "read" /\ ret' < 0) =>
             (pc' = "exited" /\ exit_status' = EXIT_FAILURE /\ out' = out)
       /\ pc = "exited" =>
             (pc' = "exited" /\ out' = out /\ exit_status' = exit_status)]_vars

C9_Witness ==
    /\ pc = "exited"
    /\ exit_status = EXIT_FAILURE
    /\ ret < 0

\* C10: the process ends with failure only through a failed read; whatever
\* byte is dispatched and whether or not its publish is taken, the loop stays
\* running, goes on to the callback step, and starts the next iteration.
C10_OnlyReadFailureTerminates ==
    [][/\ (exit_status' = EXIT_FAILURE /\ exit_status # EXIT_FAILURE) =>
             (pc = "read" /\ ret' < 0)
       /\ (pc' = "restore" /\ pc # "restore") => ~ok
       /\ DispatchStep => (pc' = "spin" /\ ok' = ok /\ exit_status' = -1)
       /\ (pc = "spin" /\ pc' # pc) => pc' = "sleep"
       /\ (pc = "sleep" /\ pc' # pc) => pc' = "while"
       /\ (pc = "while" /\ ok /\ pc' # pc) => pc' = "poll"]_vars

\* a publish was not taken, and the loop has gone through the callback step
C10_Witness ==
    /\ pc = "sleep"
    /\ ok
    /\ Len(out) = 1
    /\ ~out[1].acc

\* C11 as stated: the pose of the k-th period of a schedule registered for
\* bear_doll with speed 0.5 at time T0 has the phase 0.5 * (T0 + k*period).
C11_PhaseIsSpeedTimesTime ==
    \A h \in DOMAIN timers :
       (timers[h].name = "bear_doll" /\ timers[h].speed = 5) =>
          \A k \in 1..Len(timers[h].sent) :
             timers[h].sent[k].val = 5 * (timers[h].start_time + k * TimerPeriod)

\* C11: the k-th pose of a schedule registered for bear_doll with speed 0.5 at
\* time T0, fired on time, is published at T0 + k*period and has the phase
\* T0 + 0.5 * (T0 + k*period); the phases are strictly increasing.
C11_PhaseIsOriginPlusSpeedTimesTime ==
    \A h \in DOMAIN timers :
       (timers[h].name = "bear_doll" /\ timers[h].speed = 5) =>
          LET sent == timers[h].sent
              T0   == timers[h].start_time
          IN  /\ \A k \in 1..Len(sent) :
                    /\ sent[k].t = T0 + k * TimerPeriod
                    /\ sent[k].val = T0 * 10 + 5 * (T0 + k * TimerPeriod)
              /\ \A k \in 1..(Len(sent) - 1) : sent[k].val < sent[k + 1].val

C11_Witness ==
    \E h \in DOMAIN timers :
       /\ timers[h].name = "bear_doll"
       /\ timers[h].speed = 5
       /\ timers[h].start_time = 1
       /\ Len(timers[h].sent) = 3

\* C12: between any two firings of a schedule the phase grows by the speed
\* times the time between them: the start time bound at registration is the
\* same in every firing.
C12_PhaseDifference ==
    \A h \in DOMAIN timers :
       LET sent == timers[h].sent
       IN  \A i, j \in 1..Len(sent) :
              sent[i].t < sent[j].t =>
                 sent[j].val - sent[i].val = timers[h].speed * (sent[j].t - sent[i].t)

C12_Witness ==
    \E h \in DOMAIN timers :
       /\ timers[h].name = "rabbit_doll"
       /\ timers[h].speed = 7
       /\ timers[h].start_time > 1
       /\ Len(timers[h].sent) = 2
       /\ timers[h].sent[1].t < timers[h].sent[2].t

Dolls == {"bear_doll", "dog_doll", "rabbit_doll"}
Bootstrap == {"start", "setup", "reg_bear", "reg_dog", "reg_rabbit"}

\* C13: once the bootstrap is over the names holding a schedule are exactly
\* the three dolls, each with the schedule its registration created; the table
\* never holds one, and no later step adds, removes or replaces an entry.
C13_RegistryIsTheThreeDolls ==
    /\ "table" \notin DOMAIN pub_timer_map_
    /\ \A h \in DOMAIN timers : timers[h].name # "table"
    /\ pc \in {"start", "setup", "reg_bear"} => DOMAIN pub_timer_map_ = {}
    /\ pc \notin Bootstrap =>
          /\ DOMAIN pub_timer_map_ = Dolls
          /\ pub_timer_map_["bear_doll"] = 1
          /\ pub_timer_map_["dog_doll"] = 2
          /\ pub_timer_map_["rabbit_doll"] = 3
          /\ DOMAIN timers = {1, 2, 3}
          /\ \A n \in Dolls : timers[pub_timer_map_[n]].name = n

C13_Witness ==
    /\ pc = "spin"
    /\ Len(out) = 2
    /\ IsTablePose(out[1], 5, 0)
    /\ IsPose(out[2]) /\ out[2].child_frame_id = "bear_doll"
    /\ DOMAIN pub_timer_map_ = Dolls

\* the callback step hands one inbound message to the node
Delivery == inbox' < inbox /\ ok'

\* C14: the delivery of an inbound message leaves the registry, the loop
\* state and both outbound channels as they were; it writes a log line.
C14_DeliveryOnlyLogs ==
    [][Delivery =>
          /\ UNCHANGED <<pc, tty, ok, exit_status, regVars, advertised, out>>
          /\ log' = "Subscribe Message"]_vars

C14_Witness ==
    /\ log = "Subscribe Message"
    /\ inbox = 0
    /\ ok
    /\ Len(out) = 1

\* a step of the read of line 109 that returns
ReadStep == pc = "read" /\ pc' # pc

Firing(h) ==
    /\ h \in DOMAIN timers \cap DOMAIN timers'
    /\ Len(timers'[h].sent) = Len(timers[h].sent) + 1

\* C16: a firing of the schedule of name n makes one publish() call: a pose
\* in frame map for n, z = 0, the rotation left unset, x and y the cosine and
\* sine of (start time of n's registration) + (speed of n's registration) *
\* (time of the firing); nothing for another object, nothing on the Message
\* channel.
C16_FiringPublishesOnePose ==
    [][\A h \in DOMAIN timers :
          Firing(h) =>
             LET n       == timers[h].name
                 pos_val == latest[n].time * 10 + latest[n].speed * now
             IN  /\ AddsOnly
                 /\ Len(Added) = 1
                 /\ IsPose(Added[1])
                 /\ Added[1].frame_id = "map"
                 /\ Added[1].child_frame_id = n
                 /\ Added[1].x = <<"cos", pos_val>>
                 /\ Added[1].y = <<"sin", pos_val>>
                 /\ Added[1].z = 0
                 /\ Added[1].rotation = "unset"]_vars

C16_Witness ==
    /\ pc = "spin"
    /\ Len(out) = 3
    /\ \A n \in Dolls : PosesOf(n) # {}
    /\ \A h \in DOMAIN timers : Len(timers[h].sent) = 1

Topics == {"/goods/message/from_sigverse", "/goods/message/from_ros",
           "/goods/transform"}

\* C17: the loop is entered only with the subscription and both outbound
\* channels set up and bear_doll, dog_doll, rabbit_doll registered with the
\* speeds 0.5, 0.6, 0.7; until then nothing is polled, read, dispatched or
\* published and no schedule has fired.
C17_BootstrapBeforeLoop ==
    /\ pc \notin Bootstrap =>
          /\ advertised = Topics
          /\ DOMAIN latest = Dolls
          /\ latest["bear_doll"].speed = 5
          /\ latest["dog_doll"].speed = 6
          /\ latest["rabbit_doll"].speed = 7
          /\ \A n \in Dolls :
                /\ n \in DOMAIN pub_timer_map_
                /\ pub_timer_map_[n] \in DOMAIN timers
                /\ timers[pub_timer_map_[n]].speed = latest[n].speed
    /\ pc \in Bootstrap =>
          /\ out = <<>>
          /\ sel = 0 /\ ret = 0 /\ buf = <<>>
          /\ \A h \in DOMAIN timers : timers[h].sent = <<>>

C17_Witness ==
    /\ pc = "poll"
    /\ ok
    /\ advertised = Topics
    /\ DOMAIN latest = Dolls
    /\ \A h \in DOMAIN timers : timers[h].sent = <<>>
    /\ pending # <<>>

\* the publish() call is one a command of the switch makes
IsCommandPublish(p) == IsMessage(p) \/ (IsPose(p) /\ p.child_frame_id = "table")

\* C18: schedules fire and inbound messages are delivered only in the
\* callback step of an iteration; every step makes at most one publish() call
\* more; and in the publish() calls of one iteration the one of the dispatched
\* command comes before every pose of a schedule.
C18_CallbacksOnlyInSpin ==
    [][/\ (\E h \in DOMAIN timers : Firing(h)) => (pc = "spin" /\ pc' = "spin")
       /\ Delivery => (pc = "spin" /\ pc' = "spin")
       /\ Len(out') <= Len(out) + 1
       /\ \A i \in 1..Len(out') : IsCommandPublish(out'[i]) => i = 1]_vars

C18_Witness ==
    /\ pc = "sleep"
    /\ Len(out) >= 2
    /\ IsMessage(out[1])
    /\ IsPose(out[2]) /\ out[2].child_frame_id \in Dolls
    /\ log = "Subscribe Message"

\* C19: where the switch takes buf[ret-1], ret - 1 is the index of a byte the
\* read returned.
C19_IndexInsideBytesRead ==
    pc = "switch" => (ret - 1) \in 0..(Len(buf) - 1)

\* C20: read() is called only where canReceive() returned a positive number.
C20_ReadOnlyAfterPositivePoll ==
    pc = "read" => sel > 0

====
